---- MODULE Spec2Model ----
(***************************************************************************)
(* cellularust (src/main.rs): a cellular automaton on a fixed boolean grid *)
(* with a bounded history of generations and a navigation cursor.          *)
(*                                                                         *)
(* The model follows main.rs: get_x_y / get_idx, cell_generation_tick      *)
(* (which writes each new cell value into the very array it reads its      *)
(* neighbours from), conway_rules, seed_cells, get_next_skip_index and the *)
(* event loop of main (update tick, Space, Right, Up, Down, Left).         *)
(*                                                                         *)
(* The grid and the history are scaled down: the program has a 100 x 100   *)
(* grid and keeps 10000 snapshots, the model a 5 x 5 grid and 3 snapshots. *)
(***************************************************************************)
EXTENDS Integers, Sequences, FiniteSets

\* ------------------------------------------------------------------ sizes

\* main.rs:13-14 (100 and 100 in the program).
CELL_WIDTH == 5
CELL_HEIGHT == 5

\* main.rs:18 (10000 in the program).
SNAPSHOT_LIMIT == 3

\* Generations produced in one run of the model.
MaxGen == 5

\* Time is counted in units; the tick period 1/CELL_TICK_RATE is FtPeriod
\* units and one update event carries 1..MaxDt units.
FtPeriod == 2
MaxDt == 2

\* Longest replay (Left^n then Right^n) looked at.
MaxReplay == 3

\* main.rs:20, built with CELL_WIDTH = w and CELL_HEIGHT = h
seed_bounding_box_at(w, h) == ((w + h) \div 2) \div 5

\* main.rs:20
SEED_BOUNDING_BOX == seed_bounding_box_at(CELL_WIDTH, CELL_HEIGHT)

\* usize arithmetic wraps modulo 2^64; any modulus above every coordinate
\* and SEED_BOUNDING_BOX decides the comparisons of seed_cells the same way.
USIZE_MOD == 2 ^ 30

\* main.rs:26  type CellGrid = [bool; CELL_WIDTH * CELL_HEIGHT]
GridLen == CELL_WIDTH * CELL_HEIGHT
GridIdx == 0 .. (GridLen - 1)
CellGrid == [GridIdx -> BOOLEAN]

VARIABLES
    snapshots,     \* main.rs:146  Vec of grids, oldest first
    skip_index,    \* main.rs:154  the cursor
    should_play,   \* main.rs:153
    ft,            \* main.rs:145  accumulated time, saturated at FtPeriod
    produced,      \* history variable: every grid ever pushed, generation 0 first
    event,         \* main.rs:156  the event handled last
    before,        \* history variable: cursor and length when that event arrived
    build,         \* main.rs:13-14, 99, 104  the grid size the program is built
                   \* with, the rng outcomes of seed_cells, a loop index i
    hands_off      \* the user has stopped pressing keys: main.rs:156-157, from
                   \* now on window.next() delivers update events only

vars == <<snapshots, skip_index, should_play, ft, produced, event, before, build,
          hands_off>>

\* ------------------------------------------------------------ grid, rules

\* main.rs:54-56, built with CELL_WIDTH = w and CELL_HEIGHT = h
get_x_y_at(i, w, h) == <<i % w, i \div h>>

\* main.rs:58-60, built with CELL_HEIGHT = h
get_idx_at(x, y, w, h) == y * h + x

\* main.rs:54-56
get_x_y(i) == get_x_y_at(i, CELL_WIDTH, CELL_HEIGHT)

\* main.rs:58-60
get_idx(x, y) == get_idx_at(x, y, CELL_WIDTH, CELL_HEIGHT)

\* main.rs:67-69  the eight offsets (_x, _y) other than (0, 0)
Offsets == {d \in (-1 .. 1) \X (-1 .. 1) : ~(d[1] = 0 /\ d[2] = 0)}

\* within_range without the test against the right edge
within_range_open_right(x_m, y_m) ==
    x_m >= 0 /\ y_m >= 0 /\ y_m < CELL_HEIGHT

\* main.rs:72  the "within range" test on the signed coordinates
within_range(x_m, y_m) ==
    x_m >= 0 /\ x_m < CELL_WIDTH /\ y_m >= 0 /\ y_m < CELL_HEIGHT

\* main.rs:67-74  the candidate neighbours (x_m, y_m) of (x, y) that pass
\* the range test, and the indices idx read for them
examined(x, y) ==
    {<<d[1] + x, d[2] + y>> : d \in {o \in Offsets : within_range(o[1] + x, o[2] + y)}}

neighbor_reads(x, y) == {get_idx(c[1], c[2]) : c \in examined(x, y)}

\* main.rs:65-79  live_count of the cell (x, y), read from cells
live_count(cells, x, y) ==
    Cardinality({d \in Offsets :
        /\ within_range(d[1] + x, d[2] + y)
        /\ cells[get_idx(d[1] + x, d[2] + y)]})

\* conway_rules with the birth rule also for 2 live neighbours
conway_rules_birth_at_two(grid, cell) ==
    IF cell.alive /\ cell.neighbors_alive > 3 THEN FALSE
    ELSE IF cell.alive /\ cell.neighbors_alive < 2 THEN FALSE
    ELSE IF ~cell.alive
         THEN (IF cell.neighbors_alive >= 2 /\ cell.neighbors_alive <= 3
               THEN TRUE ELSE cell.alive)
         ELSE cell.alive

\* main.rs:117-127
conway_rules(grid, cell) ==
    IF cell.alive /\ cell.neighbors_alive > 3 THEN FALSE
    ELSE IF cell.alive /\ cell.neighbors_alive < 2 THEN FALSE
    ELSE IF ~cell.alive
         THEN (IF cell.neighbors_alive = 3 THEN TRUE ELSE cell.alive)
         ELSE cell.alive

\* main.rs:147-150  the registered rules, in registration order
cell_rules == <<"conway_rules">>

\* main.rs:36, 46-48  a call of one boxed rule: conway_rules, or one of the
\* closures add_rule accepts ("invert" returns !cell.alive, any other name
\* returns cell.alive)
call_rule(rule, grid, cell) ==
    IF rule = "conway_rules" THEN conway_rules(grid, cell)
    ELSE IF rule = "invert" THEN ~cell.alive
    ELSE cell.alive

\* run_rules handing every rule the cell's first alive flag
run_rules_no_cascade(rules, k, grid, state) ==
    IF Len(rules) = 0 THEN state.alive
    ELSE call_rule(rules[Len(rules)], grid, state)

\* main.rs:88-90  state.alive = rule(&cells, state.clone()) for each rule in order
RECURSIVE run_rules(_, _, _, _)
run_rules(rules, k, grid, state) ==
    IF k > Len(rules) THEN state.alive
    ELSE run_rules(rules, k + 1, grid,
                   [state EXCEPT !.alive = call_rule(rules[k], grid, state)])

\* main.rs:64-92  one iteration of the loop over i: the new value of cells[i]
next_cell(cells, rules, i) ==
    LET xy == get_x_y(i)
        state == [x |-> xy[1], y |-> xy[2], alive |-> cells[i],
                  neighbors_alive |-> live_count(cells, xy[1], xy[2])]
    IN run_rules(rules, 1, cells, state)

\* main.rs:63-93  the loop from index i on; cells[i] is overwritten in place,
\* so later iterations read the values written by earlier ones
RECURSIVE tick_from(_, _, _)
tick_from(cells, rules, i) ==
    IF i >= GridLen THEN cells
    ELSE tick_from([cells EXCEPT ![i] = next_cell(cells, rules, i)], rules, i + 1)

\* main.rs:62-95
cell_generation_tick(cells, rules) == tick_from(cells, rules, 0)

\* ------------------------------------------------------------------- seed

\* usize::wrapping_sub, main.rs:101-102
wrapping_sub(a, b) == (a - b) % USIZE_MOD

\* main.rs:101-102  the cells seed_cells draws a random value for, built
\* with CELL_WIDTH = w and CELL_HEIGHT = h
in_seed_box_at(i, w, h) ==
    LET xy == get_x_y_at(i, w, h)
    IN /\ wrapping_sub(w \div 2, xy[1]) < seed_bounding_box_at(w, h)
       /\ wrapping_sub(h \div 2, xy[2]) < seed_bounding_box_at(w, h)

seed_sites_at(w, h) == {i \in 0 .. (w * h - 1) : in_seed_box_at(i, w, h)}

\* main.rs:97-108  built with CELL_WIDTH = w and CELL_HEIGHT = h; draws[i]
\* is the outcome of rng.gen_bool at cell i
seed_cells_at(w, h, draws) ==
    [i \in 0 .. (w * h - 1) |-> IF in_seed_box_at(i, w, h) THEN draws[i] ELSE FALSE]

\* main.rs:101-102
in_seed_box(i) == in_seed_box_at(i, CELL_WIDTH, CELL_HEIGHT)

SeedSites == seed_sites_at(CELL_WIDTH, CELL_HEIGHT)

\* main.rs:97-108
seed_cells(draws) == seed_cells_at(CELL_WIDTH, CELL_HEIGHT, draws)

\* ---------------------------------------------------------------- history

\* get_next_skip_index without the clamp at 0
get_next_skip_index_no_floor(dir, i, max) ==
    LET tv == dir + i
    IN IF tv > max THEN max ELSE tv

\* main.rs:110-115
get_next_skip_index(dir, i, max) ==
    LET tv == dir + i
    IN IF tv < 0 THEN 0
       ELSE IF tv > max THEN max
       ELSE tv

\* push_snapshot evicting one push too late
push_snapshot_late_eviction(snaps, grid) ==
    LET pushed == Append(snaps, grid)
    IN IF Len(pushed) > SNAPSHOT_LIMIT + 1 THEN Tail(pushed) ELSE pushed

\* push_snapshot evicting the second oldest snapshot instead of the oldest
push_snapshot_evicts_second(snaps, grid) ==
    LET pushed == Append(snaps, grid)
    IN IF Len(pushed) > SNAPSHOT_LIMIT
       THEN <<pushed[1]>> \o SubSeq(pushed, 3, Len(pushed))
       ELSE pushed

\* push_snapshot storing the new grid over the newest snapshot, as a step
\* made in place on the stored array would
push_snapshot_over_newest(snaps, grid) == [snaps EXCEPT ![Len(snaps)] = grid]

\* main.rs:166-169 and 185-188  push, then remove(0) above the limit
push_snapshot(snaps, grid) ==
    LET pushed == Append(snaps, grid)
    IN IF Len(pushed) > SNAPSHOT_LIMIT THEN Tail(pushed) ELSE pushed

\* next_generation stepping the oldest snapshot instead of the newest
next_generation_of_oldest(snaps) == cell_generation_tick(snaps[1], cell_rules)

\* main.rs:166, 185  the grid computed from snapshots.last()
next_generation(snaps) == cell_generation_tick(snaps[Len(snaps)], cell_rules)

\* right_pushes without the test for a cursor beyond the last snapshot
right_pushes_at_last_only(idx, len) == idx = len - 1

\* main.rs:184  the test of Key::Right on the already advanced cursor
right_pushes(idx, len) == idx >= len \/ idx = len - 1

\* main.rs:183-189  Key::Right while paused, as a function of the history
right_result(snaps, idx) ==
    LET moved == get_next_skip_index(1, idx, SNAPSHOT_LIMIT - 1)
    IN [skip_index |-> moved,
        snapshots |-> IF right_pushes(moved, Len(snaps))
                      THEN push_snapshot(snaps, next_generation(snaps))
                      ELSE snaps,
        pushed |-> right_pushes(moved, Len(snaps))]

\* main.rs:203  Key::Left while paused, as a function of the history
left_result(snaps, idx) ==
    [skip_index |-> get_next_skip_index(-1, idx, Len(snaps) - 1),
     snapshots |-> snaps,
     pushed |-> FALSE]

\* tick_result taking a cursor that is behind straight to the newest snapshot
tick_result_jumps(snaps, idx) ==
    IF idx < Len(snaps) - 1
    THEN [skip_index |-> Len(snaps) - 1, snapshots |-> snaps, pushed |-> FALSE]
    ELSE LET s == push_snapshot(snaps, next_generation(snaps))
         IN [skip_index |-> Len(s) - 1, snapshots |-> s, pushed |-> TRUE]

\* main.rs:161-171  the body of a tick that fires
tick_result(snaps, idx) ==
    IF idx < Len(snaps) - 1
    THEN [skip_index |-> idx + 1, snapshots |-> snaps, pushed |-> FALSE]
    ELSE LET s == push_snapshot(snaps, next_generation(snaps))
         IN [skip_index |-> Len(s) - 1, snapshots |-> s, pushed |-> TRUE]

\* ----------------------------------------------------------------- events

\* the history variables event and before, for the event e
Note(e) ==
    /\ event' = e
    /\ before' = [skip_index |-> skip_index, len |-> Len(snapshots)]
    /\ UNCHANGED <<build, hands_off>>

\* the history variable produced follows a handler's result r
Record(r) ==
    produced' = IF r.pushed THEN Append(produced, r.snapshots[Len(r.snapshots)])
                ELSE produced

\* a handler that leaves the history alone
untouched == [skip_index |-> skip_index, snapshots |-> snapshots, pushed |-> FALSE]

\* main.rs:146-155  the state before the first event, for the first grid
StartWith(grid) ==
    /\ snapshots = <<grid>>
    /\ produced = <<grid>>
    /\ skip_index = 0
    /\ should_play = FALSE
    /\ ft = 0
    /\ event = "start"
    /\ before = [skip_index |-> 0, len |-> 1]
    /\ hands_off = FALSE

\* main.rs:13-14, 104  the program as built, with the rng outcomes draws
Built(draws) == [w |-> CELL_WIDTH, h |-> CELL_HEIGHT, draws |-> draws, i |-> 0]

\* main.rs:130-155
Init ==
    \E draws \in [SeedSites -> BOOLEAN] :
        StartWith(seed_cells(draws)) /\ build = Built(draws)

\* tick_fires without the test of the play flag
tick_fires_ignoring_pause(dt) == ft + dt >= FtPeriod

\* main.rs:159  ft >= period && should_play, after ft += dt
tick_fires(dt) == ft + dt >= FtPeriod /\ should_play

\* main.rs:157-174  an update event with args.dt = dt
UpdateAt(dt) ==
    LET r == IF tick_fires(dt) THEN tick_result(snapshots, skip_index)
             ELSE untouched
    IN /\ Note("Update")
       /\ r.pushed => Len(produced) < MaxGen
       /\ ft' = IF tick_fires(dt) THEN 0
                ELSE IF ft + dt > FtPeriod THEN FtPeriod ELSE ft + dt
       /\ snapshots' = r.snapshots
       /\ skip_index' = r.skip_index
       /\ Record(r)
       /\ UNCHANGED should_play

Update == \E dt \in 1 .. MaxDt : UpdateAt(dt)

\* main.rs:177-179
KeySpace ==
    /\ Note("Space")
    /\ should_play' = ~should_play
    /\ UNCHANGED <<snapshots, skip_index, ft, produced>>

\* main.rs:180-191
KeyRight ==
    LET r == IF ~should_play THEN right_result(snapshots, skip_index)
             ELSE untouched
    IN /\ Note("Right")
       /\ r.pushed => Len(produced) < MaxGen
       /\ snapshots' = r.snapshots
       /\ skip_index' = r.skip_index
       /\ Record(r)
       /\ UNCHANGED <<should_play, ft>>

\* KeyUp gated by the play flag, like Left and Right
KeyUp_only_paused ==
    /\ Note("Up")
    /\ skip_index' = IF ~should_play THEN Len(snapshots) - 1 ELSE skip_index
    /\ UNCHANGED <<snapshots, should_play, ft, produced>>

\* main.rs:192-195
KeyUp ==
    /\ Note("Up")
    /\ skip_index' = Len(snapshots) - 1
    /\ UNCHANGED <<snapshots, should_play, ft, produced>>

\* main.rs:196-199
KeyDown ==
    /\ Note("Down")
    /\ skip_index' = 0
    /\ UNCHANGED <<snapshots, should_play, ft, produced>>

\* KeyLeft without the test of the play flag
KeyLeft_while_playing ==
    LET r == left_result(snapshots, skip_index)
    IN /\ Note("Left")
       /\ snapshots' = r.snapshots
       /\ skip_index' = r.skip_index
       /\ Record(r)
       /\ UNCHANGED <<should_play, ft>>

\* main.rs:200-205
KeyLeft ==
    LET r == IF ~should_play THEN left_result(snapshots, skip_index)
             ELSE untouched
    IN /\ Note("Left")
       /\ snapshots' = r.snapshots
       /\ skip_index' = r.skip_index
       /\ Record(r)
       /\ UNCHANGED <<should_play, ft>>

\* main.rs:156-208  one event of the loop
Next == Update \/ KeySpace \/ KeyRight \/ KeyUp \/ KeyDown \/ KeyLeft

Spec == Init /\ [][Next]_vars

\* ------------------------------------------------- the step on given grids

\* the grid whose live cells are the cells (x, y) of live
GridOf(live) == [i \in GridIdx |-> \E c \in live : i = get_idx(c[1], c[2])]

\* Input grids of the generation step: every pattern on the middle row and
\* the middle column of the 3 x 3 block around the centre (both blinkers
\* among them), the kind of local pattern the program's seeder draws in its
\* 20 x 20 box.
InputCells == {c \in (1 .. 3) \X (1 .. 3) : c[1] = 2 \/ c[2] = 2}
InputGrids == {GridOf(live) : live \in SUBSET InputCells}

InitTick == \E grid \in InputGrids : StartWith(grid) /\ build = Built(<<>>)

SpecTick == InitTick /\ [][Next]_vars

\* ------------------------------------------- the grid of other build sizes

\* Largest width and height the program is built with here.
MaxSide == 10

\* main.rs:13-14, 130-155  the program built with CELL_WIDTH = w and
\* CELL_HEIGHT = h, after seeding
InitGrid ==
    \E w \in 1 .. MaxSide, h \in 1 .. MaxSide :
        \E draws \in [seed_sites_at(w, h) -> BOOLEAN] :
            /\ StartWith(seed_cells_at(w, h, draws))
            /\ build = [w |-> w, h |-> h, draws |-> draws, i |-> 0]

\* main.rs:99-100, 212-213  the next iteration of a loop over 0..cells.len()
\* that calls get_x_y(i)
NextIndex ==
    /\ build.i + 1 < build.w * build.h
    /\ build' = [build EXCEPT !.i = build.i + 1]
    /\ UNCHANGED <<snapshots, skip_index, should_play, ft, produced, event, before,
                   hands_off>>

SpecGrid == InitGrid /\ [][NextIndex]_vars

\* ---------------------------------------------- playback left to itself

\* the user presses the last key while the program is playing
LetGo ==
    /\ should_play /\ ~hands_off
    /\ hands_off' = TRUE
    /\ UNCHANGED <<snapshots, skip_index, should_play, ft, produced, event, before,
                   build>>

\* main.rs:156-208  events until the user lets go, update events afterwards
NextPlay ==
    \/ ~hands_off /\ Next
    \/ LetGo
    \/ hands_off /\ Update

\* main.rs:157-162  an update event that arrives while the cursor is behind
\* the newest snapshot
CatchUp == hands_off /\ skip_index < Len(snapshots) - 1 /\ Update

\* main.rs:156-157  the window keeps delivering update events; fairness is
\* assumed only for the events that arrive while the cursor is behind
SpecPlay == Init /\ [][NextPlay]_vars /\ WF_vars(CatchUp)

\* ------------------------------------------------------------ claims C1-C10

last_index(snaps) == Len(snaps) - 1

\* the Conway result of reading every cell and every neighbour from grid
FromInputOnly(grid) == [i \in GridIdx |-> next_cell(grid, cell_rules, i)]

\* C1: every cell of the output of one generation step is the Conway result
\* of the alive flag and the live neighbour count read from the input grid
\* (simultaneous update), for every generation the program produces.
C1_SimultaneousUpdate ==
    \A g \in 1 .. (Len(produced) - 1) : produced[g + 1] = FromInputOnly(produced[g])

HorizontalLine == GridOf({<<1, 2>>, <<2, 2>>, <<3, 2>>})
VerticalLine == GridOf({<<2, 1>>, <<2, 2>>, <<2, 3>>})

\* C2: from the horizontal blinker (1,2), (2,2), (3,2) one step yields exactly
\* the vertical line (2,1), (2,2), (2,3), and a second step yields the
\* horizontal line again.
C2_Blinker ==
    produced[1] = HorizontalLine =>
        /\ Len(produced) >= 2 => produced[2] = VerticalLine
        /\ Len(produced) >= 3 => produced[3] = HorizontalLine

\* a step-forward: the Right key while paused, or an update event whose tick fires
StepForward ==
    \/ ~should_play /\ KeyRight
    \/ \E dt \in 1 .. MaxDt : tick_fires(dt) /\ UpdateAt(dt)

\* C3: a step-forward with the cursor strictly behind the newest snapshot
\* moves the cursor by exactly +1 and leaves the snapshot sequence unchanged
\* (nothing is computed, pushed or evicted).
C3_ReviewingStepDoesNotSimulate ==
    [][(StepForward /\ skip_index < last_index(snapshots)) =>
          /\ skip_index' = skip_index + 1
          /\ snapshots' = snapshots
          /\ produced' = produced]_vars

RECURSIVE left_times(_, _)
left_times(h, n) ==
    IF n = 0 THEN h ELSE left_times(left_result(h.snapshots, h.skip_index), n - 1)

RECURSIVE right_times(_, _)
right_times(h, n) ==
    IF n = 0 THEN h ELSE right_times(right_result(h.snapshots, h.skip_index), n - 1)

\* the history after n presses of Left and then n presses of Right, paused
replay(n) ==
    right_times(left_times([snapshots |-> snapshots, skip_index |-> skip_index,
                            pushed |-> FALSE], n), n)

\* C4: in a paused state, n presses of Left followed by n presses of Right
\* bring the cursor back to where it was, show the same snapshot and leave
\* the snapshot sequence as it was (stated for the replays that do not run
\* into the clamp at 0, n <= cursor).
C4_IdempotentReplay ==
    ~should_play =>
        \A n \in 0 .. MaxReplay :
            n <= skip_index =>
                /\ replay(n).skip_index = skip_index
                /\ replay(n).snapshots = snapshots

\* C5: the history holds at least 1 and at most SNAPSHOT_LIMIT snapshots.
C5_LengthBound ==
    Len(snapshots) >= 1 /\ Len(snapshots) <= SNAPSHOT_LIMIT

\* an eviction has happened and the history is full
C5_Witness ==
    Len(produced) > SNAPSHOT_LIMIT /\ Len(snapshots) = SNAPSHOT_LIMIT

\* C6: the cursor is an index of the snapshot sequence whenever the current
\* snapshot is read for drawing: 0 <= skip_index <= length - 1.
C6_CursorValid ==
    skip_index >= 0 /\ skip_index <= last_index(snapshots)

\* Right was pressed at the newest snapshot of a full history (an eviction)
C6_Witness ==
    /\ event = "Right" /\ ~should_play
    /\ before.len = SNAPSHOT_LIMIT
    /\ before.skip_index = SNAPSHOT_LIMIT - 1
    /\ Len(produced) > SNAPSHOT_LIMIT
    /\ skip_index = SNAPSHOT_LIMIT - 1

\* C7: a step-forward with the cursor at the newest snapshot appends exactly
\* one snapshot, one generation step of the previously newest one (the oldest
\* is dropped when the history was full), and leaves the cursor at the new
\* newest snapshot.
C7_FrontierExtends ==
    [][(StepForward /\ skip_index = last_index(snapshots)) =>
          LET new == cell_generation_tick(snapshots[Len(snapshots)], cell_rules)
              kept == IF Len(snapshots) < SNAPSHOT_LIMIT THEN snapshots
                      ELSE Tail(snapshots)
          IN /\ snapshots' = Append(kept, new)
             /\ produced' = Append(produced, new)
             /\ skip_index' = last_index(snapshots')]_vars

\* a tick fired at the newest snapshot of a full history, between two
\* generations that differ
C7_Witness ==
    /\ event = "Update" /\ should_play /\ ft = 0
    /\ before.len = SNAPSHOT_LIMIT
    /\ before.skip_index = SNAPSHOT_LIMIT - 1
    /\ Len(produced) > SNAPSHOT_LIMIT
    /\ skip_index = last_index(snapshots)
    /\ snapshots[Len(snapshots)] # snapshots[Len(snapshots) - 1]

Max(a, b) == IF a >= b THEN a ELSE b

\* C8: when G generations have been produced, the history holds exactly the
\* generations max(0, G - SNAPSHOT_LIMIT) .. G - 1, oldest first.
C8_NewestGenerationsInOrder ==
    LET G == Len(produced)
        first == Max(0, G - SNAPSHOT_LIMIT)
    IN /\ Len(snapshots) = G - first
       /\ \A k \in 1 .. Len(snapshots) : snapshots[k] = produced[first + k]

\* two evictions have happened and the retained generations are not all equal
C8_Witness ==
    /\ Len(produced) >= SNAPSHOT_LIMIT + 2
    /\ snapshots[1] # snapshots[2]

\* C9: the Left key while paused sets the cursor to max(cursor - 1, 0), a
\* no-op at 0, and leaves the snapshot sequence unchanged.
C9_StepBackward ==
    [][(~should_play /\ KeyLeft) =>
          /\ skip_index' = Max(skip_index - 1, 0)
          /\ snapshots' = snapshots
          /\ produced' = produced]_vars

\* Left was pressed at cursor 0 of a history of several snapshots
C9_Witness ==
    /\ event = "Left" /\ ~should_play
    /\ before.skip_index = 0 /\ before.len >= 2
    /\ skip_index = 0

\* C10: Down sets the cursor to 0 and Up sets it to length - 1, playing or
\* paused; both leave the snapshot sequence and the play flag unchanged.
C10_Jumps ==
    [][/\ KeyDown => /\ skip_index' = 0
                     /\ snapshots' = snapshots
                     /\ should_play' = should_play
       /\ KeyUp => /\ skip_index' = last_index(snapshots)
                   /\ snapshots' = snapshots
                   /\ should_play' = should_play]_vars

\* Up was pressed while playing, with the cursor behind the newest snapshot
C10_Witness ==
    /\ event = "Up" /\ should_play
    /\ before.skip_index < before.len - 1
    /\ skip_index = last_index(snapshots)

\* ----------------------------------------------------------- claims C11-C20

\* the Conway table: alive survives on 2 or 3 neighbours, dead is born on 3
ConwayTable(alive, n) == (alive /\ n \in {2, 3}) \/ (~alive /\ n = 3)

\* C11: for every alive flag and every neighbour count 0..8, conway_rules
\* returns alive exactly when (alive and n in {2,3}) or (dead and n = 3), on
\* the grid the next generation is computed from.
C11_ConwayTable ==
    \A alive \in BOOLEAN, n \in 0 .. 8, i \in GridIdx :
        conway_rules(snapshots[Len(snapshots)],
                     [x |-> get_x_y(i)[1], y |-> get_x_y(i)[2],
                      alive |-> alive, neighbors_alive |-> n])
            = ConwayTable(alive, n)

\* a generation was computed in which one cell was born, one died and one
\* survived
C11_Witness ==
    /\ Len(produced) >= 2
    /\ \E i \in GridIdx : ~produced[1][i] /\ produced[2][i]
    /\ \E i \in GridIdx : produced[1][i] /\ ~produced[2][i]
    /\ \E i \in GridIdx : produced[1][i] /\ produced[2][i]

Abs(a) == IF a < 0 THEN -a ELSE a

\* the Moore neighbours of (x, y) that lie inside [0, W) x [0, H)
MooreInside(x, y) ==
    {c \in (0 .. CELL_WIDTH - 1) \X (0 .. CELL_HEIGHT - 1) :
        /\ c # <<x, y>>
        /\ Abs(c[1] - x) <= 1
        /\ Abs(c[2] - y) <= 1}

\* C12: for every cell (x, y) the neighbour loop examines exactly the Moore
\* neighbours inside the grid, reads for each of them the index of that very
\* cell, inside [0, W*H), and counts between 0 and 8 live cells, the number
\* of live Moore neighbours inside the grid (on the newest snapshot, the one
\* the next generation is computed from); the corner (0, 0) has exactly 3
\* candidates.
C12_NeighboursRespectEdges ==
    /\ Cardinality(examined(0, 0)) = 3
    /\ \A x \in 0 .. CELL_WIDTH - 1, y \in 0 .. CELL_HEIGHT - 1 :
          /\ examined(x, y) = MooreInside(x, y)
          /\ neighbor_reads(x, y) \subseteq GridIdx
          /\ \A c \in examined(x, y) : get_x_y(get_idx(c[1], c[2])) = c
          /\ LET newest == snapshots[Len(snapshots)]
                 count == live_count(newest, x, y)
             IN /\ count \in 0 .. 8
                /\ count = Cardinality({c \in MooreInside(x, y) :
                                           newest[get_idx(c[1], c[2])]})

\* a cell on the left edge and a cell on the top edge have live neighbours
\* in a grid that was stepped
C12_Witness ==
    /\ Len(produced) >= 2
    /\ \E y \in 0 .. CELL_HEIGHT - 1 :
          live_count(snapshots[Len(snapshots)], 0, y) >= 1
    /\ \E x \in 0 .. CELL_WIDTH - 1 :
          live_count(snapshots[Len(snapshots)], x, 0) >= 1

\* C13: for a grid of width w and height h and every index i in [0, w*h),
\* get_x_y(i) = (x, y) has 0 <= x < w and 0 <= y < h and get_idx(x, y) = i;
\* for every in-range (x, y), get_idx(x, y) is in [0, w*h) and get_x_y takes
\* it back to (x, y).
C13_CoordinateRoundTrip ==
    LET w == build.w
        h == build.h
        xy == get_x_y_at(build.i, w, h)
    IN /\ xy[1] >= 0 /\ xy[1] < w
       /\ xy[2] >= 0 /\ xy[2] < h
       /\ get_idx_at(xy[1], xy[2], w, h) = build.i
       /\ \A x \in 0 .. w - 1, y \in 0 .. h - 1 :
             /\ get_idx_at(x, y, w, h) \in 0 .. (w * h - 1)
             /\ get_x_y_at(get_idx_at(x, y, w, h), w, h) = <<x, y>>

\* every Bernoulli trial of seed_cells succeeded (spawn probability 1)
AllDrawn == \A i \in DOMAIN build.draws : build.draws[i]

\* C14: in the seeded grid of a w x h build (stated for square builds, where
\* cell (x, y) has the index get_idx(x, y)), with R the bounding-box radius,
\* a cell with |w/2 - x| >= R or |h/2 - y| >= R is dead, and when every trial
\* succeeds the cells with |w/2 - x| < R and |h/2 - y| < R are all alive.
C14_SeedingRegion ==
    LET w == build.w
        h == build.h
        R == seed_bounding_box_at(w, h)
        InBox(x, y) == Abs(w \div 2 - x) < R /\ Abs(h \div 2 - y) < R
    IN w = h =>
          \A x \in 0 .. w - 1, y \in 0 .. h - 1 :
              /\ ~InBox(x, y) => ~produced[1][get_idx_at(x, y, w, h)]
              /\ AllDrawn => (produced[1][get_idx_at(x, y, w, h)] = InBox(x, y))

\* the history changed: the cursor moved or the snapshot sequence changed
HistoryChanged ==
    skip_index' # skip_index \/ snapshots' # snapshots \/ produced' # produced

\* C15: an update event while the play flag is false leaves the cursor and
\* the snapshot sequence unchanged; an update event changes them only in a
\* state where the play flag is true.
C15_PauseGatesTicks ==
    [][/\ (Update /\ ~should_play) => ~HistoryChanged
       /\ (Update /\ HistoryChanged) => should_play]_vars

\* an update event arrived while paused, with a full tick period accumulated
C15_Witness ==
    /\ event = "Update" /\ ~should_play
    /\ ft = FtPeriod
    /\ before.skip_index = skip_index
    /\ before.len = Len(snapshots)
    /\ Len(produced) >= 2

\* Longest rule list looked at.
MaxRules == 3

RuleNames == {"conway_rules", "invert"}
RuleLists == UNION {[1 .. n -> RuleNames] : n \in 0 .. MaxRules}

CellAt(i, alive, n) ==
    [x |-> get_x_y(i)[1], y |-> get_x_y(i)[2], alive |-> alive, neighbors_alive |-> n]

\* the output of rule k of rules: rule 1 sees the cell's own alive flag, rule
\* k + 1 the output of rule k, every rule the same neighbour count
RECURSIVE OutputOfRule(_, _, _, _)
OutputOfRule(rules, k, grid, cell) ==
    IF k = 0 THEN cell.alive
    ELSE call_rule(rules[k], grid,
                   [cell EXCEPT !.alive = OutputOfRule(rules, k - 1, grid, cell)])

\* C16: the rules run in registration order, rule k + 1 receives the output
\* of rule k as its alive flag, every rule receives the same neighbour
\* count, and the cell's next state is the output of the last rule: for
\* every rule list, alive flag and count, and for every cell of the newest
\* snapshot under the registered rules.
C16_RuleCascade ==
    LET newest == snapshots[Len(snapshots)]
    IN /\ \A rules \in RuleLists, alive \in BOOLEAN, n \in 0 .. 8 :
             run_rules(rules, 1, newest, CellAt(0, alive, n))
                 = OutputOfRule(rules, Len(rules), newest, CellAt(0, alive, n))
       /\ \A i \in GridIdx :
             LET xy == get_x_y(i)
                 cell == CellAt(i, newest[i], live_count(newest, xy[1], xy[2]))
             IN next_cell(newest, cell_rules, i)
                    = OutputOfRule(cell_rules, Len(cell_rules), newest, cell)

\* a generation was computed from a grid with a live cell for which the
\* order of two rules matters
C16_Witness ==
    /\ Len(produced) >= 2
    /\ \E i \in GridIdx :
          /\ produced[1][i]
          /\ next_cell(produced[1], <<"conway_rules", "invert">>, i)
                 # next_cell(produced[1], <<"invert", "conway_rules">>, i)

\* C17: no event changes the cells of a stored snapshot: every snapshot that
\* is still retained after an event holds the grid it held before (one index
\* lower after an eviction, which only a push onto a full history causes),
\* the snapshot a generation was computed from included.
C17_SnapshotsImmutable ==
    [][LET added == Len(produced') - Len(produced)
           evicted == Len(snapshots) + added - Len(snapshots')
       IN /\ added \in {0, 1}
          /\ evicted \in {0, 1}
          /\ evicted = 1 => (added = 1 /\ Len(snapshots) = SNAPSHOT_LIMIT)
          /\ \A k \in (evicted + 1) .. Len(snapshots) :
                snapshots'[k - evicted] = snapshots[k]]_vars

\* Right pushed a generation that differs from the snapshot it was computed
\* from, which is still stored
C17_Witness ==
    /\ event = "Right" /\ ~should_play
    /\ Len(snapshots) = before.len + 1
    /\ snapshots[Len(snapshots)] # snapshots[Len(snapshots) - 1]
    /\ snapshots[Len(snapshots) - 1] = produced[Len(produced) - 1]

\* C18: every stored snapshot but the oldest is one generation step of the
\* snapshot stored before it.
C18_ConsecutiveGenerations ==
    \A k \in 1 .. (Len(snapshots) - 1) :
        snapshots[k + 1] = cell_generation_tick(snapshots[k], cell_rules)

\* Right, pressed at the second-newest snapshot of a full history, pushed a
\* generation and evicted one; the stored generations differ from each other
C18_Witness ==
    /\ event = "Right" /\ ~should_play
    /\ before.len = SNAPSHOT_LIMIT
    /\ before.skip_index = SNAPSHOT_LIMIT - 2
    /\ Len(produced) > SNAPSHOT_LIMIT
    /\ snapshots[Len(snapshots)] = produced[Len(produced)]
    /\ \A k \in 1 .. (Len(snapshots) - 1) : snapshots[k + 1] # snapshots[k]

\* C19: while the play flag is true, a Left or Right key press leaves the
\* cursor, the snapshot sequence and the play flag unchanged.
C19_NoManualStepWhilePlaying ==
    [][(should_play /\ (KeyLeft \/ KeyRight)) =>
          /\ skip_index' = skip_index
          /\ snapshots' = snapshots
          /\ produced' = produced
          /\ should_play' = should_play]_vars

\* Right was pressed while playing with the cursor at the newest snapshot of
\* a history of several snapshots, and nothing moved
C19_Witness ==
    /\ event = "Right" /\ should_play
    /\ before.len >= 2
    /\ before.skip_index = before.len - 1
    /\ skip_index = before.skip_index
    /\ Len(snapshots) = before.len

\* an update event whose tick fires
TickFired == \E dt \in 1 .. MaxDt : tick_fires(dt) /\ UpdateAt(dt)

\* C20: once the play flag stays true and only update events arrive, the
\* cursor eventually reaches the newest snapshot; until then every event
\* leaves the snapshot sequence alone and moves the cursor by at most +1
\* (every snapshot up to the newest is shown in order); from then on the
\* cursor stays at the newest snapshot and every tick that fires pushes one
\* new generation.
C20_PlaybackCatchesUp ==
    /\ hands_off ~> (skip_index = last_index(snapshots))
    /\ [][(hands_off /\ skip_index < last_index(snapshots)) =>
             /\ snapshots' = snapshots
             /\ produced' = produced
             /\ skip_index' \in {skip_index, skip_index + 1}
             /\ TickFired => skip_index' = skip_index + 1]_vars
    /\ [][(hands_off /\ skip_index = last_index(snapshots)) =>
             /\ skip_index' = last_index(snapshots')
             /\ TickFired =>
                   produced' = Append(produced, cell_generation_tick(
                                   snapshots[Len(snapshots)], cell_rules))
             /\ ~TickFired => produced' = produced]_vars

\* left to itself two snapshots behind, playback has reached the newest
\* snapshot of a full history without pushing
C20_Witness ==
    /\ hands_off /\ should_play /\ event = "Update"
    /\ before.len = SNAPSHOT_LIMIT
    /\ Len(snapshots) = SNAPSHOT_LIMIT
    /\ before.skip_index = SNAPSHOT_LIMIT - 2
    /\ skip_index = last_index(snapshots)

====
